---------------------------- MODULE Spec2Model ----------------------------
(***************************************************************************)
(* Model of bullhorn.client.BullhornClient.request (src/bullhorn/client.py)*)
(* one call at a time on one client: header construction, the retry loop   *)
(* of at most five attempts, the classification of each response, the      *)
(* handling of OSError and the statements that follow the loop.            *)
(*                                                                         *)
(* The transport (requests.request) and time.sleep are the environment:    *)
(* each dispatch ends either in a response (status code, raw body) or in   *)
(* an OSError (errno); each sleep returns.                                 *)
(*                                                                         *)
(* Further state machines share the module: the construction of a         *)
(* bullhorn.route.Route (RouteSpec), a query accessor of the client, such  *)
(* as get_appointments, on top of request (AccessorSpec), the construction *)
(* of the exceptions of bullhorn.exceptions (ErrorSpec), a call to request *)
(* during which the owner assigns another token (RotateSpec) and several   *)
(* calls to request on one client, interleaved (ConcSpec).                 *)
(***************************************************************************)
EXTENDS Integers, Sequences, FiniteSets, TLC

VARIABLES
    token,      \* BullhornClient.token (None or a string)
    rest_url,   \* BullhornClient.rest_url
    user_agent, \* BullhornClient.user_agent
    route,      \* the Route passed to request: method, path and url
    json,       \* the json argument of request (None or a payload)
    headers,    \* the headers dict built before the loop
    pc,         \* position of the call: idle, dispatch, sleep, done
    tries,      \* loop variable of "for tries in range(5)"
    response,   \* local variable response (unbound until first response)
    data,       \* local variable data
    attempts,   \* outcome of every dispatch of the current call, in order
    sleeps,     \* argument of every time.sleep of the current call, in order
    result,     \* how the call ended: returned value or raised exception
    sent,       \* arguments of every requests.request call of the current
                \* call to request, in order
    built,      \* the Route constructed last: arguments, url, key or error
    builtBefore,\* the Route constructed before that one
    accPc,      \* position of a query accessor: idle, fetching, done
    accArgs,    \* the accessor's arguments: entity, count, start
    accFetches, \* path_params of every Route the accessor passed to request
    accEnvelope,\* what request returned to the accessor
    accResult,  \* what the accessor returned or raised
    raised,     \* the HTTPException constructed last
    calls,      \* local variables of each of several calls to request
    delivered   \* what the transport gave to each of these calls, in order

requestVars == <<token, rest_url, user_agent, route, json, headers, pc,
                 tries, response, data, attempts, sleeps, result, sent>>

routeVars == <<built, builtBefore>>

accVars == <<accPc, accArgs, accFetches, accEnvelope, accResult>>

excVars == <<raised>>

concVars == <<calls, delivered>>

vars == <<requestVars, routeVars, accVars, excVars, concVars>>

---------------------------------------------------------------------------
(* Values the environment and the caller may supply.                       *)

\* Python None for token / json / data.
NoneVal == [type |-> "None", text |-> ""]

Tokens == {NoneVal, [type |-> "str", text |-> "tok"]}

Routes == {[method |-> "GET", path |-> "ping", url |-> "ping"],
           [method |-> "POST", path |-> "entity/{entity}",
            url |-> "entity/Candidate"]}

\* the rest_url argument of BullhornClient
RestUrl == "https://rest.bullhorn.example/rest-services/corp/"

JsonArgs == {NoneVal, [type |-> "dict", text |-> "{}"]}

\* Status codes a response may carry: both ends of the 2xx window, the
\* statuses next to it, the statuses the code names, and other 4xx / 5xx.
Statuses == {199, 200, 299, 300, 400, 403, 404, 429, 500, 501, 524}

\* Raw response bodies: two JSON documents and one that is not JSON.
Bodies == {"{}", "[]", "<html>"}

\* errno of an OSError raised during an attempt: 54 and 10054 are the
\* connection-reset codes the code names, 104 is ECONNRESET on Linux, 61 is
\* ECONNREFUSED (connection refused), 0 stands for errno None.
Errnos == {54, 10054, 104, 61, 0}

---------------------------------------------------------------------------
(* response.json()                                                         *)

IsJsonAlways(b) == TRUE

IsJson(b) == b \in {"{}", "[]"}

JsonParse(b) ==
    IF b = "{}" THEN [type |-> "dict", text |-> "{}"]
    ELSE IF b = "[]" THEN [type |-> "list", text |-> "[]"]
    ELSE NoneVal

---------------------------------------------------------------------------
(* Pieces of request                                                       *)

\* for tries in range(5)
MaxTriesOffByOne == 5 + 1

MaxTries == 5

\* 300 > response.status_code >= 200
IsSuccessExclusive(s) == 300 > s /\ s > 200

IsSuccess(s) == 300 > s /\ s >= 200

\* response.status_code in {429, 500, 502, 503, 504, 524}
RetryStatuses == {429, 500, 502, 503, 504, 524}

\* time.sleep(1 + tries * 2)
BackoffWrongStep(t) == 1 + t * 3

BackoffExponential(t) == 2 ^ t

Backoff(t) == 1 + t * 2

\* tries < 4 and e.errno in (54, 10054)
RetryOSErrorNoLimit(t, e) == e \in {54, 10054}

RetryOSErrorAnyErrno(t, e) == t < 4

RetryOSError(t, e) == t < 4 /\ e \in {54, 10054}

\* the if / elif chain raising Forbidden, NotFound, BullhornServerError or
\* HTTPException
ErrorFor(s) ==
    IF s = 403 THEN "Forbidden"
    ELSE IF s = 404 THEN "NotFound"
    ELSE IF s >= 500 THEN "BullhornServerError"
    ELSE "HTTPException"

\* after the loop: BullhornServerError if status_code >= 500, else
\* HTTPException
ExhaustedErrorStrict(s) ==
    IF s > 500 THEN "BullhornServerError" ELSE "HTTPException"

ExhaustedError(s) ==
    IF s >= 500 THEN "BullhornServerError" ELSE "HTTPException"

\* what _get_user_agent returns when the client is constructed
UserAgent == "Python wrapper for Bullhorn API (...) Python/3 requests/2"

\* headers built before the loop
BuildHeadersTokenAlways(tok, j) ==
    {<<"User-Agent", user_agent>>, <<"BhRestToken", tok.text>>}
    \cup (IF j # NoneVal THEN {<<"Content-Type", "application/json">>} ELSE {})

BuildHeaders(tok, j) ==
    {<<"User-Agent", user_agent>>}
    \cup (IF tok # NoneVal THEN {<<"BhRestToken", tok.text>>} ELSE {})
    \cup (IF j # NoneVal THEN {<<"Content-Type", "application/json">>} ELSE {})

---------------------------------------------------------------------------
(* Values of the local variables and of the call's result                  *)

\* bound: the name response has been assigned; none: its value is None
\* (requests.request returns a Response object, never None).
Unbound == [bound |-> FALSE, none |-> FALSE, status_code |-> 0, body |-> ""]

Response(s, b) == [bound |-> TRUE, none |-> FALSE, status_code |-> s,
                   body |-> b]

NoResult == [kind |-> "none", exc |-> "", value |-> NoneVal,
             response |-> Unbound, errno |-> 0]

Returned(v) == [kind |-> "return", exc |-> "", value |-> v,
                response |-> Unbound, errno |-> 0]

\* raise Forbidden / NotFound / BullhornServerError / HTTPException
\* (response, data)
RaisedHTTP(name, r, d) == [kind |-> "raise", exc |-> name, value |-> d,
                           response |-> r, errno |-> 0]

\* an OSError leaving request through the bare raise
RaisedOSError(e) == [kind |-> "raise", exc |-> "OSError", value |-> NoneVal,
                     response |-> Unbound, errno |-> e]

\* any other exception leaving request
RaisedOther(name) == [kind |-> "raise", exc |-> name, value |-> NoneVal,
                      response |-> Unbound, errno |-> 0]

GotResponse(s, ok) == [kind |-> "response", status |-> s, json |-> ok,
                       errno |-> 0]

GotOSError(e) == [kind |-> "oserror", status |-> 0, json |-> FALSE,
                  errno |-> e]

Last(seq) == seq[Len(seq)]

\* requests.request(method=method, url=url, headers=headers, json=json)
DispatchedFreshHeaders(r, h, j) ==
    [method |-> r.method, url |-> r.url, headers |-> BuildHeaders(token, j),
     json |-> j]

Dispatched(r, h, j) == [method |-> r.method, url |-> r.url, headers |-> h,
                        json |-> j]

---------------------------------------------------------------------------
(* Route and accessor at rest (while request is exercised)                 *)

NoRoute == [method |-> <<>>, path |-> <<>>, path_params |-> <<>>,
            query_params |-> <<>>, url |-> <<>>, key |-> <<>>,
            error |-> "unbuilt"]

RouteIdle == built = NoRoute /\ builtBefore = NoRoute

NoEnvelope == [total |-> 0, start |-> 0, count |-> 0, data |-> <<>>]

AccessorIdle ==
    /\ accPc = "idle"
    /\ accArgs = [entity |-> "", count |-> 0, start |-> 0]
    /\ accFetches = <<>>
    /\ accEnvelope = NoEnvelope
    /\ accResult = [kind |-> "none", exc |-> "", value |-> <<>>]

\* Parsed JSON values: None, str, int, dict (items: <<key, value>> in
\* insertion order) and list (items: <<"", element>> in order).
JNull == [t |-> "null", s |-> "", n |-> 0, items |-> <<>>]

JStr(x) == [t |-> "str", s |-> x, n |-> 0, items |-> <<>>]

JInt(k) == [t |-> "int", s |-> "", n |-> k, items |-> <<>>]

JDict(its) == [t |-> "dict", s |-> "", n |-> 0, items |-> its]

JList(vs) == [t |-> "list", s |-> "", n |-> 0,
              items |-> [i \in 1..Len(vs) |-> <<"", vs[i]>>]]

NoException == [name |-> "", response |-> Unbound, status |-> 0,
                code |-> JInt(0), text |-> JStr(""), message |-> JNull]

ExceptionIdle == raised = NoException

\* The calls to request that run on one client at the same time.
NumCalls == 2

Calls == 1..NumCalls

IdleCall == [pc |-> "idle",
             route |-> [method |-> "", path |-> "", url |-> ""],
             json |-> NoneVal, headers |-> {}, tries |-> 0,
             response |-> Unbound, data |-> NoneVal, sleeps |-> <<>>,
             result |-> NoResult, sent |-> <<>>]

CallsIdle ==
    /\ calls = [c \in Calls |-> IdleCall]
    /\ delivered = [c \in Calls |-> <<>>]

---------------------------------------------------------------------------
(* State machine                                                           *)

Init ==
    /\ token \in Tokens
    /\ rest_url = RestUrl
    /\ user_agent = UserAgent
    /\ route \in Routes
    /\ json = NoneVal
    /\ headers = {}
    /\ pc = "idle"
    /\ tries = 0
    /\ response = Unbound
    /\ data = NoneVal
    /\ attempts = <<>>
    /\ sleeps = <<>>
    /\ result = NoResult
    /\ sent = <<>>
    /\ RouteIdle
    /\ AccessorIdle
    /\ ExceptionIdle
    /\ CallsIdle

\* A caller invokes request(route, json): lines 106-119.
Request(r, j) ==
    /\ pc \in {"idle", "done"}
    /\ route' = r
    /\ json' = j
    /\ headers' = BuildHeaders(token, j)
    /\ data' = NoneVal
    /\ response' = Unbound
    /\ tries' = 0
    /\ attempts' = <<>>
    /\ sleeps' = <<>>
    /\ result' = NoResult
    /\ sent' = <<>>
    /\ pc' = "dispatch"
    /\ UNCHANGED <<token, rest_url, user_agent, routeVars, accVars, excVars,
                   concVars>>

\* What follows the loop: lines 152-158.
AfterLoopReturnsData(r, d) == Returned(d)

AfterLoop(r, d) ==
    IF ~r.bound THEN RaisedOther("UnboundLocalError")
    ELSE IF ~r.none THEN RaisedHTTP(ExhaustedError(r.status_code), r, d)
    ELSE RaisedOther("RuntimeError")

\* requests.request returns a response with status s and raw body b; the
\* body of the try block runs to its return, raise or sleep: lines 122-145.
Respond(s, b) ==
    /\ pc = "dispatch"
    /\ sent' = Append(sent, Dispatched(route, headers, json))
    /\ response' = Response(s, b)
    /\ attempts' = Append(attempts, GotResponse(s, IsJson(b)))
    /\ IF ~IsJson(b)
       THEN \* response.json() raises; the exception leaves request
            /\ result' = RaisedOther("JSONDecodeError")
            /\ pc' = "done"
            /\ UNCHANGED <<data, sleeps>>
       ELSE /\ data' = JsonParse(b)
            /\ IF IsSuccess(s)
               THEN /\ result' = Returned(JsonParse(b))
                    /\ pc' = "done"
                    /\ UNCHANGED sleeps
               ELSE IF s \in RetryStatuses
               THEN /\ sleeps' = Append(sleeps, Backoff(tries))
                    /\ pc' = "sleep"
                    /\ UNCHANGED result
               ELSE /\ result' = RaisedHTTP(ErrorFor(s), Response(s, b),
                                            JsonParse(b))
                    /\ pc' = "done"
                    /\ UNCHANGED sleeps
    /\ UNCHANGED <<token, rest_url, user_agent, route, json, headers, tries,
                   routeVars, accVars, excVars, concVars>>

\* requests.request raises an OSError with errno e: lines 146-151.
FaultClearsToken(e) ==
    /\ pc = "dispatch"
    /\ sent' = Append(sent, Dispatched(route, headers, json))
    /\ attempts' = Append(attempts, GotOSError(e))
    /\ IF RetryOSError(tries, e)
       THEN /\ sleeps' = Append(sleeps, Backoff(tries))
            /\ pc' = "sleep"
            /\ UNCHANGED result
       ELSE /\ result' = RaisedOSError(e)
            /\ pc' = "done"
            /\ UNCHANGED sleeps
    /\ token' = NoneVal
    /\ UNCHANGED <<rest_url, user_agent, route, json, headers, tries,
                   response, data, routeVars, accVars, excVars, concVars>>

Fault(e) ==
    /\ pc = "dispatch"
    /\ sent' = Append(sent, Dispatched(route, headers, json))
    /\ attempts' = Append(attempts, GotOSError(e))
    /\ IF RetryOSError(tries, e)
       THEN /\ sleeps' = Append(sleeps, Backoff(tries))
            /\ pc' = "sleep"
            /\ UNCHANGED result
       ELSE /\ result' = RaisedOSError(e)
            /\ pc' = "done"
            /\ UNCHANGED sleeps
    /\ UNCHANGED <<token, rest_url, user_agent, route, json, headers, tries,
                   response, data, routeVars, accVars, excVars, concVars>>

\* time.sleep returns and continue takes the loop to its next iteration,
\* or out of the loop when the range is used up: lines 136, 150, 152-158.
WakeRestartsLoop ==
    /\ pc = "sleep"
    /\ tries' = 0
    /\ attempts' = <<>>
    /\ sleeps' = <<>>
    /\ sent' = <<>>
    /\ pc' = "dispatch"
    /\ UNCHANGED <<token, rest_url, user_agent, route, json, headers,
                   response, data, result,
                   routeVars, accVars, excVars, concVars>>

Wake ==
    /\ pc = "sleep"
    /\ IF tries + 1 < MaxTries
       THEN /\ tries' = tries + 1
            /\ pc' = "dispatch"
            /\ UNCHANGED result
       ELSE /\ result' = AfterLoop(response, data)
            /\ pc' = "done"
            /\ UNCHANGED tries
    /\ UNCHANGED <<token, rest_url, user_agent, route, json, headers,
                   response, data,
                   attempts, sleeps, sent, routeVars, accVars, excVars,
                   concVars>>

Next ==
    \/ \E r \in Routes, j \in JsonArgs : Request(r, j)
    \/ \E s \in Statuses, b \in Bodies : Respond(s, b)
    \/ \E e \in Errnos : Fault(e)
    \/ Wake

Spec == Init /\ [][Next]_vars

\* Every dispatch ends (in a response or an OSError) and every time.sleep
\* returns.
FairSpec ==
    /\ Spec
    /\ WF_vars((\E s \in Statuses, b \in Bodies : Respond(s, b))
               \/ (\E e \in Errnos : Fault(e)))
    /\ WF_vars(Wake)

\* The owner of the client assigns a new token (client.token = t) while a
\* call to request is asleep between two attempts.
RotateToken(t) ==
    /\ pc = "sleep"
    /\ t # token
    /\ token' = t
    /\ UNCHANGED <<rest_url, user_agent, route, json, headers, pc, tries,
                   response, data, attempts, sleeps, result, sent,
                   routeVars, accVars, excVars, concVars>>

RotateNext ==
    \/ Next
    \/ \E t \in Tokens : RotateToken(t)

RotateSpec == Init /\ [][RotateNext]_vars


---------------------------------------------------------------------------
(* bullhorn.route.Route                                                    *)
(*                                                                         *)
(* Strings are sequences of one-character strings, so that formatting and  *)
(* percent-encoding are computed character by character.  A dict is the    *)
(* sequence of its <<key, value>> items in insertion order, keys unique.   *)

\* Python values passed as path or query parameters.
PyStr(s) == [type |-> "str", s |-> s, n |-> 0, b |-> FALSE]

PyInt(n) == [type |-> "int", s |-> <<>>, n |-> n, b |-> FALSE]

PyBool(b) == [type |-> "bool", s |-> <<>>, n |-> 0, b |-> b]

Digit(d) == <<"0", "1", "2", "3", "4", "5", "6", "7", "8", "9">>[d + 1]

\* str(n) for an int n >= 0
RECURSIVE Decimal(_)
Decimal(n) == IF n < 10 THEN <<Digit(n)>>
              ELSE Decimal(n \div 10) \o <<Digit(n % 10)>>

\* str(v), which is also format(v, "")
Str(v) == IF v.type = "str" THEN v.s
          ELSE IF v.type = "int" THEN Decimal(v.n)
          ELSE IF v.b THEN <<"T", "r", "u", "e">>
          ELSE <<"F", "a", "l", "s", "e">>

\* urllib.parse: characters never quoted
AlwaysSafe == {"a", "b", "c", "d", "e", "f", "p", "q", "r", "u", "x", "y",
               "F", "T", "l", "s",
               "0", "1", "2", "3", "4", "5", "6", "7", "8", "9",
               "_", ".", "-", "~"}

\* "%XX" of a character
PercentCode(c) ==
    IF c = " " THEN <<"%", "2", "0">>
    ELSE IF c = "%" THEN <<"%", "2", "5">>
    ELSE IF c = "&" THEN <<"%", "2", "6">>
    ELSE IF c = "," THEN <<"%", "2", "C">>
    ELSE IF c = "/" THEN <<"%", "2", "F">>
    ELSE IF c = "=" THEN <<"%", "3", "D">>
    ELSE IF c = "?" THEN <<"%", "3", "F">>
    ELSE IF c = "{" THEN <<"%", "7", "B">>
    ELSE IF c = "}" THEN <<"%", "7", "D">>
    ELSE <<"%", "?", "?">>

\* urllib.parse.quote(s, safe)
RECURSIVE QuoteWith(_, _)
QuoteWith(s, safe) ==
    IF s = <<>> THEN <<>>
    ELSE (IF Head(s) \in AlwaysSafe \cup safe THEN <<Head(s)>>
          ELSE PercentCode(Head(s))) \o QuoteWith(Tail(s), safe)

\* _uriquote(v): urllib.parse.quote with its default safe="/"
QuoteIdentity(s) == s

Quote(s) == QuoteWith(s, {"/"})

\* urllib.parse.quote_plus(s): spaces become "+", nothing else is safe
RECURSIVE QuotePlus(_)
QuotePlus(s) ==
    IF s = <<>> THEN <<>>
    ELSE (IF Head(s) = " " THEN <<"+">> ELSE QuoteWith(<<Head(s)>>, {}))
         \o QuotePlus(Tail(s))

\* dict lookup
HasKey(d, k) == \E i \in 1..Len(d) : d[i][1] = k

Lookup(d, k) == d[CHOOSE i \in 1..Len(d) : d[i][1] = k][2]

\* {k: _uriquote(v) if isinstance(v, str) else v for k, v in
\*  path_params.items()}
QuotedParams(path_params) ==
    [i \in 1..Len(path_params) |->
        <<path_params[i][1],
          IF path_params[i][2].type = "str"
          THEN PyStr(Quote(path_params[i][2].s))
          ELSE path_params[i][2]>>]

\* index of the first c in s, 0 when there is none
IndexOf(s, c) ==
    IF \E i \in 1..Len(s) : s[i] = c
    THEN CHOOSE i \in 1..Len(s) : s[i] = c /\ \A j \in 1..(i - 1) : s[j] # c
    ELSE 0

\* str.format_map(mapping): literal text is copied, "{name}" is replaced by
\* format(mapping[name], ""); a name that is not in the mapping raises
\* KeyError, an unmatched brace raises ValueError.
RECURSIVE FormatMap(_, _)
FormatMap(s, mapping) ==
    IF s = <<>> THEN [error |-> "", out |-> <<>>]
    ELSE IF Head(s) = "}" THEN [error |-> "ValueError", out |-> <<>>]
    ELSE IF Head(s) # "{"
    THEN LET rest == FormatMap(Tail(s), mapping)
         IN  [error |-> rest.error,
              out |-> IF rest.error = "" THEN <<Head(s)>> \o rest.out
                      ELSE <<>>]
    ELSE LET close == IndexOf(s, "}")
             name == SubSeq(s, 2, close - 1)
         IN  IF close = 0 THEN [error |-> "ValueError", out |-> <<>>]
             ELSE IF ~HasKey(mapping, name)
             THEN [error |-> "KeyError", out |-> <<>>]
             ELSE LET rest == FormatMap(SubSeq(s, close + 1, Len(s)),
                                        mapping)
                  IN  [error |-> rest.error,
                       out |-> IF rest.error = ""
                               THEN Str(Lookup(mapping, name)) \o rest.out
                               ELSE <<>>]

\* urllib.parse.urlencode(query): "k=v" of every item, in the order of
\* query.items(), joined by "&"; keys and values go through quote_plus
\* (values that are not str through str first).
RECURSIVE UrlEncodeReversed(_)
UrlEncodeReversed(query) ==
    IF query = <<>> THEN <<>>
    ELSE QuotePlus(query[Len(query)][1]) \o <<"=">>
         \o QuotePlus(Str(query[Len(query)][2]))
         \o (IF Len(query) = 1 THEN <<>>
             ELSE <<"&">>
                  \o UrlEncodeReversed(SubSeq(query, 1, Len(query) - 1)))

RECURSIVE UrlEncode(_)
UrlEncode(query) ==
    IF query = <<>> THEN <<>>
    ELSE QuotePlus(query[1][1]) \o <<"=">> \o QuotePlus(Str(query[1][2]))
         \o (IF Len(query) = 1 THEN <<>>
             ELSE <<"&">> \o UrlEncode(Tail(query)))

\* Route.key: f"{self.method} {self.path}"
RouteKeyFromUrl(self) == self.method \o <<" ">> \o self.url

RouteKey(self) == self.method \o <<" ">> \o self.path

\* Route.__init__(method, path, path_params, query_params): lines 34-47.
\* The result records the arguments, the url and key of the Route, and the
\* exception when the constructor raised one (no Route exists then).
RouteInit(method, path, path_params, query_params) ==
    LET formatted ==
            IF path_params # <<>>
            THEN FormatMap(path, QuotedParams(path_params))
            ELSE [error |-> "", out |-> path]
        url == IF query_params # <<>>
               THEN formatted.out \o <<"?">> \o UrlEncode(query_params)
               ELSE formatted.out
        self == [method |-> method, path |-> path, url |-> url]
    IN  IF formatted.error # ""
        THEN [method |-> method, path |-> path,
              path_params |-> path_params, query_params |-> query_params,
              url |-> <<>>, key |-> <<>>, error |-> formatted.error]
        ELSE [method |-> method, path |-> path,
              path_params |-> path_params, query_params |-> query_params,
              url |-> url, key |-> RouteKey(self), error |-> ""]

\* Arguments a caller may pass to Route.
Methods == {<<"G", "E", "T">>, <<"P", "U", "T">>}

Templates == {<<"p", "/", "q">>,
              <<"e", "/", "{", "a", "}">>,
              <<"e", "/", "{", "a", "}", "/", "{", "b", "}">>}

PathParams == {<<>>,
               << <<<<"a">>, PyStr(<<"x", ",", "y">>)>> >>,
               << <<<<"a">>, PyInt(12)>>, <<<<"b">>, PyStr(<<"c", " ", "d">>)>> >>,
               << <<<<"b">>, PyBool(TRUE)>> >>,
               << <<<<"b">>, PyInt(7)>>, <<<<"a">>, PyStr(<<"u", "/", "x">>)>> >>}

QueryParams == {<<>>,
                << <<<<"f">>, PyStr(<<"x", ",", "y">>)>>, <<<<"c">>, PyInt(5)>> >>,
                << <<<<"c">>, PyInt(5)>>, <<<<"f">>, PyStr(<<"x", ",", "y">>)>> >>,
                << <<<<"q">>, PyStr(<<"a", " ", "/">>)>> >>}

\* request at rest (while Route or an accessor is exercised)
RequestIdle ==
    /\ token = NoneVal
    /\ rest_url = RestUrl
    /\ user_agent = UserAgent
    /\ route = [method |-> "GET", path |-> "ping", url |-> "ping"]
    /\ json = NoneVal
    /\ headers = {}
    /\ pc = "idle"
    /\ tries = 0
    /\ response = Unbound
    /\ data = NoneVal
    /\ attempts = <<>>
    /\ sleeps = <<>>
    /\ result = NoResult
    /\ sent = <<>>

RouteSpecInit ==
    RequestIdle /\ RouteIdle /\ AccessorIdle /\ ExceptionIdle /\ CallsIdle

\* A caller constructs a Route.
NewRoute(method, path, path_params, query_params) ==
    /\ built' = RouteInit(method, path, path_params, query_params)
    /\ builtBefore' = built
    /\ UNCHANGED <<requestVars, accVars, excVars, concVars>>

RouteNext ==
    \E method \in Methods, path \in Templates, path_params \in PathParams,
       query_params \in QueryParams :
        NewRoute(method, path, path_params, query_params)

RouteSpec == RouteSpecInit /\ [][RouteNext]_vars

---------------------------------------------------------------------------
(* Query accessors of BullhornClient (get_appointments, get_candidates,    *)
(* ...): one Route, one call to request, return request["data"].           *)
(*                                                                         *)
(* request is the executor of the accessor: it returns the parsed body of  *)
(* the response, an envelope {total, start, count, data} of the server's   *)
(* page, or raises.  Records are numbered 1..total on the server.          *)

\* Largest number of records the server holds.
MaxTotal == 25

Entities == {"Appointment", "Candidate"}

\* count and start arguments a caller may pass (count defaults to 10,
\* start to 0).
Counts == {1, 10, 25}

Starts == {0, 10, 20}

Min(a, b) == IF a < b THEN a ELSE b

\* The page the server returns for count and start out of total records.
Envelope(total, count, start) ==
    LET last == Min(start + count, total)
        page == IF last > start THEN [i \in 1..(last - start) |-> start + i]
                ELSE <<>>
    IN  [total |-> total, start |-> start, count |-> Len(page),
         data |-> page]

\* path_params of the Route of a query accessor: lines 210-216.
FetchParamsSwapped(entity, count, start) ==
    [entity |-> entity, count |-> start, start |-> count]

FetchParams(entity, count, start) ==
    [entity |-> entity, count |-> count, start |-> start]

\* return request["data"]: line 219.
DataAfterStart(request) ==
    SubSeq(request.data, request.start + 1, Len(request.data))

DataOf(request) == request.data

AccessorSpecInit ==
    RequestIdle /\ RouteIdle /\ AccessorIdle /\ ExceptionIdle /\ CallsIdle

\* A caller invokes a query accessor; the accessor builds its Route and
\* calls request: lines 182-218.
CallAccessor(entity, count, start) ==
    /\ accPc \in {"idle", "done"}
    /\ accArgs' = [entity |-> entity, count |-> count, start |-> start]
    /\ accFetches' = <<FetchParams(entity, count, start)>>
    /\ accEnvelope' = NoEnvelope
    /\ accResult' = [kind |-> "none", exc |-> "", value |-> <<>>]
    /\ accPc' = "fetching"
    /\ UNCHANGED <<requestVars, routeVars, excVars,
                   concVars>>

\* request returns the envelope of the page asked for: line 219.
RequestReturns(total) ==
    /\ accPc = "fetching"
    /\ LET asked == Last(accFetches)
           request == Envelope(total, asked.count, asked.start)
       IN  /\ accEnvelope' = request
           /\ accResult' = [kind |-> "return", exc |-> "",
                            value |-> DataOf(request)]
    /\ accPc' = "done"
    /\ UNCHANGED <<accArgs, accFetches, requestVars, routeVars, excVars,
                   concVars>>

\* request raises; the exception leaves the accessor: line 205.
RequestRaises(exc) ==
    /\ accPc = "fetching"
    /\ accResult' = [kind |-> "raise", exc |-> exc, value |-> <<>>]
    /\ accPc' = "done"
    /\ UNCHANGED <<accArgs, accFetches, accEnvelope, requestVars, routeVars,
                   excVars, concVars>>

AccessorNext ==
    \/ \E entity \in Entities, count \in Counts, start \in Starts :
           CallAccessor(entity, count, start)
    \/ \E total \in 0..MaxTotal : RequestReturns(total)
    \/ \E exc \in {"Forbidden", "NotFound", "BullhornServerError",
                   "HTTPException", "OSError", "JSONDecodeError"} :
           RequestRaises(exc)

AccessorSpec == AccessorSpecInit /\ [][AccessorNext]_vars

---------------------------------------------------------------------------
(* bullhorn.exceptions: HTTPException and _flatten_error_dict              *)
(* (src/bullhorn/exceptions.py)                                            *)

\* bool(x) of a parsed JSON value
Truthy(j) ==
    CASE j.t = "null" -> FALSE
      [] j.t = "str" -> j.s # ""
      [] j.t = "int" -> j.n # 0
      [] OTHER -> j.items # <<>>

\* d.get(k, default)
Get(d, k, default) == IF HasKey(d.items, k) THEN Lookup(d.items, k) ELSE default

\* sep.join(ss)
RECURSIVE JoinWith(_, _)
JoinWith(ss, sep) ==
    IF ss = <<>> THEN ""
    ELSE IF Len(ss) = 1 THEN ss[1]
    ELSE ss[1] \o sep \o JoinWith(Tail(ss), sep)

\* dict(items): one entry per key, at the place of the key's first item and
\* with the value of its last
RECURSIVE PyDict(_)
PyDict(items) ==
    IF items = <<>> THEN <<>>
    ELSE LET front == PyDict(SubSeq(items, 1, Len(items) - 1))
             last == items[Len(items)]
         IN  IF HasKey(front, last[1])
             THEN [i \in 1..Len(front) |->
                     IF front[i][1] = last[1] THEN last ELSE front[i]]
             ELSE Append(front, last)

\* new_key = key + "." + k if key else k
NewKeyLastOnly(key, k) == k

NewKey(key, k) == IF key # "" THEN key \o "." \o k ELSE k

\* " ".join(x.get("message", "") for x in _errors)
LeafMessage(_errors) ==
    JoinWith([i \in 1..Len(_errors.items) |->
                 Get(_errors.items[i][2], "message", JStr("")).s], " ")

\* the list items of _flatten_error_dict(d, key) once the loop has handled
\* the first n entries of d
RECURSIVE FlattenItems(_, _, _)
FlattenItems(d, key, n) ==
    IF n = 0 THEN <<>>
    ELSE LET items == FlattenItems(d, key, n - 1)
             k == d.items[n][1]
             v == d.items[n][2]
             new_key == NewKey(key, k)
         IN  IF v.t = "dict"
             THEN IF HasKey(v.items, "_errors")
                  THEN Append(items,
                         <<new_key,
                           JStr(LeafMessage(Lookup(v.items, "_errors")))>>)
                  ELSE items \o PyDict(FlattenItems(v, new_key, Len(v.items)))
             ELSE Append(items, <<new_key, v>>)

FlattenErrorDict(d, key) == PyDict(FlattenItems(d, key, Len(d.items)))

\* "%s" % v
PercentS(v) ==
    CASE v.t = "str" -> v.s
      [] v.t = "null" -> "None"

\* "\n".join("In %s: %s" % t for t in errors.items())
Helpful(errors) ==
    JoinWith([i \in 1..Len(errors) |->
                 "In " \o errors[i][1] \o ": " \o PercentS(errors[i][2])],
             "\n")

\* self.code
ErrorCodeNoDefault(message) ==
    IF message.t = "dict" THEN Get(message, "code", JNull) ELSE JInt(0)

ErrorCode(message) ==
    IF message.t = "dict" THEN Get(message, "code", JInt(0)) ELSE JInt(0)

\* self.text
ErrorText(message) ==
    IF message.t = "dict"
    THEN LET base == Get(message, "message", JStr("")).s
             errors == Get(message, "errors", JNull)
         IN  IF Truthy(errors)
             THEN JStr(base \o "\n" \o Helpful(FlattenErrorDict(errors, "")))
             ELSE JStr(base)
    ELSE IF Truthy(message) THEN message ELSE JStr("")

\* HTTPException.__init__(response, message), for the class called name
HTTPExceptionInit(name, r, message) ==
    [name |-> name, response |-> r, status |-> r.status_code,
     code |-> ErrorCode(message), text |-> ErrorText(message),
     message |-> message]

\* One leaf of an errors structure: {"_errors": [{"message": m}, ...]}
Leaf(ms) ==
    JDict(<< <<"_errors",
               JList([i \in 1..Len(ms) |-> JDict(<< <<"message", JStr(ms[i])>> >>)])>> >>)

\* Bodies of failure responses: the text received and what response.json()
\* makes of it.
ErrorBodies == <<
    [raw |-> "{}", parsed |-> JDict(<<>>)],
    [raw |-> "null", parsed |-> JNull],
    [raw |-> "[]", parsed |-> JList(<<>>)],
    [raw |-> "\"\"", parsed |-> JStr("")],
    [raw |-> "\"boom\"", parsed |-> JStr("boom")],
    [raw |-> "{\"message\": \"bad\"}",
     parsed |-> JDict(<< <<"message", JStr("bad")>> >>)],
    [raw |-> "{\"code\": 7}",
     parsed |-> JDict(<< <<"code", JInt(7)>> >>)],
    [raw |-> "{\"code\": 7, \"message\": \"bad\"}",
     parsed |-> JDict(<< <<"code", JInt(7)>>, <<"message", JStr("bad")>> >>)],
    [raw |-> "{\"message\": \"bad\", \"errors\": {}}",
     parsed |-> JDict(<< <<"message", JStr("bad")>>,
                         <<"errors", JDict(<<>>)>> >>)],
    [raw |-> "{\"code\": 7, \"message\": \"bad\", \"errors\": {\"name\": "
             \o "{\"_errors\": [{\"message\": \"required\"}]}}}",
     parsed |-> JDict(<< <<"code", JInt(7)>>, <<"message", JStr("bad")>>,
                         <<"errors",
                           JDict(<< <<"name", Leaf(<<"required">>)>> >>)>> >>)],
    [raw |-> "{\"message\": \"bad\", \"errors\": {\"address\": {\"zip\": "
             \o "{\"_errors\": [{\"message\": \"too long\"}, "
             \o "{\"message\": \"digits only\"}]}}, \"name\": "
             \o "{\"_errors\": [{\"message\": \"required\"}]}}}",
     parsed |-> JDict(<< <<"message", JStr("bad")>>,
                         <<"errors",
                           JDict(<< <<"address",
                                      JDict(<< <<"zip",
                                                 Leaf(<<"too long",
                                                        "digits only">>)>> >>)>>,
                                    <<"name", Leaf(<<"required">>)>> >>)>> >>)],
    [raw |-> "{\"errors\": {\"a\": {\"b\": {\"c\": "
             \o "{\"_errors\": [{\"message\": \"x\"}]}}}}}",
     parsed |-> JDict(<< <<"errors",
                           JDict(<< <<"a",
                                      JDict(<< <<"b",
                                                 JDict(<< <<"c",
                                                            Leaf(<<"x">>)>> >>)>> >>)>> >>)>> >>)],
    [raw |-> "{\"message\": \"bad\", \"errors\": {\"a\": {\"b\": "
             \o "{\"_errors\": [{\"message\": \"x\"}]}}, \"a.b\": "
             \o "{\"_errors\": [{\"message\": \"y\"}]}}}",
     parsed |-> JDict(<< <<"message", JStr("bad")>>,
                         <<"errors",
                           JDict(<< <<"a", JDict(<< <<"b", Leaf(<<"x">>)>> >>)>>,
                                    <<"a.b", Leaf(<<"y">>)>> >>)>> >>)],
    [raw |-> "{\"message\": \"bad\", \"errors\": {\"a\": {}}}",
     parsed |-> JDict(<< <<"message", JStr("bad")>>,
                         <<"errors", JDict(<< <<"a", JDict(<<>>)>> >>)>> >>)]
    >>

\* request raises a typed error for a response with status s and the i-th
\* body: immediately (client.py lines 137-145) or, for a transient status,
\* once the loop has run out (lines 152-156).
RaiseTyped(s, i) ==
    /\ ~IsSuccess(s)
    /\ raised' = HTTPExceptionInit(
                    IF s \in RetryStatuses THEN ExhaustedError(s)
                    ELSE ErrorFor(s),
                    Response(s, ErrorBodies[i].raw), ErrorBodies[i].parsed)
    /\ UNCHANGED <<requestVars, routeVars, accVars, concVars>>

ErrorSpecInit ==
    RequestIdle /\ RouteIdle /\ AccessorIdle /\ ExceptionIdle /\ CallsIdle

ErrorNext == \E s \in Statuses, i \in 1..Len(ErrorBodies) : RaiseTyped(s, i)

ErrorSpec == ErrorSpecInit /\ [][ErrorNext]_vars

---------------------------------------------------------------------------
(* Several calls to request on one client, interleaved at their dispatch   *)
(* and sleep points. Each call has its own local variables; the client's   *)
(* fields are read when the call starts (src/bullhorn/client.py 106-158).  *)

ConcStatuses == {200, 404, 503}

ConcBodies == {"{}", "<html>"}

ConcErrnos == {54, 61}

\* The arguments of call c.
CallRoute(c) ==
    IF c % 2 = 1
    THEN [method |-> "GET", path |-> "ping", url |-> "ping"]
    ELSE [method |-> "POST", path |-> "entity/{entity}",
          url |-> "entity/Candidate"]

CallJson(c) ==
    IF c % 2 = 1 THEN NoneVal ELSE [type |-> "dict", text |-> "{}"]

\* The locals of a call that has run lines 106-119.
StartCall(tok, r, j) ==
    [pc |-> "dispatch", route |-> r, json |-> j,
     headers |-> BuildHeaders(tok, j), tries |-> 0, response |-> Unbound,
     data |-> NoneVal, sleeps |-> <<>>, result |-> NoResult, sent |-> <<>>]

\* The locals after a dispatch that returned status s and body b:
\* lines 122-145.
OnResponse(l, s, b) ==
    LET got == [l EXCEPT !.sent = Append(@, Dispatched(l.route, l.headers,
                                                       l.json)),
                         !.response = Response(s, b)]
    IN  IF ~IsJson(b)
        THEN [got EXCEPT !.result = RaisedOther("JSONDecodeError"),
                         !.pc = "done"]
        ELSE IF IsSuccess(s)
        THEN [got EXCEPT !.data = JsonParse(b),
                         !.result = Returned(JsonParse(b)),
                         !.pc = "done"]
        ELSE IF s \in RetryStatuses
        THEN [got EXCEPT !.data = JsonParse(b),
                         !.sleeps = Append(@, Backoff(l.tries)),
                         !.pc = "sleep"]
        ELSE [got EXCEPT !.data = JsonParse(b),
                         !.result = RaisedHTTP(ErrorFor(s), Response(s, b),
                                               JsonParse(b)),
                         !.pc = "done"]

\* The locals after a dispatch that raised an OSError with errno e:
\* lines 146-151.
OnOSError(l, e) ==
    LET got == [l EXCEPT !.sent = Append(@, Dispatched(l.route, l.headers,
                                                       l.json))]
    IN  IF RetryOSError(l.tries, e)
        THEN [got EXCEPT !.sleeps = Append(@, Backoff(l.tries)),
                         !.pc = "sleep"]
        ELSE [got EXCEPT !.result = RaisedOSError(e), !.pc = "done"]

\* The locals after time.sleep has returned: lines 136, 150, 152-158.
OnWake(l) ==
    IF l.tries + 1 < MaxTries
    THEN [l EXCEPT !.tries = l.tries + 1, !.pc = "dispatch"]
    ELSE [l EXCEPT !.result = AfterLoop(l.response, l.data), !.pc = "done"]

\* Call c goes on with locals l; the locals of the other calls stay.
StoreTriesOnClient(cs, c, l) ==
    [k \in DOMAIN cs |->
        IF k = c THEN l
        ELSE IF cs[k].pc = "idle" THEN cs[k]
        ELSE [cs[k] EXCEPT !.tries = l.tries]]

Store(cs, c, l) == [cs EXCEPT ![c] = l]

CallRequest(c) ==
    /\ calls[c].pc = "idle"
    /\ calls' = Store(calls, c, StartCall(token, CallRoute(c), CallJson(c)))
    /\ UNCHANGED <<delivered, requestVars, routeVars, accVars, excVars>>

CallRespond(c, s, b) ==
    /\ calls[c].pc = "dispatch"
    /\ calls' = Store(calls, c, OnResponse(calls[c], s, b))
    /\ delivered' = [delivered EXCEPT
                       ![c] = Append(@, [kind |-> "response", status |-> s,
                                         body |-> b, errno |-> 0])]
    /\ UNCHANGED <<requestVars, routeVars, accVars, excVars>>

CallFault(c, e) ==
    /\ calls[c].pc = "dispatch"
    /\ calls' = Store(calls, c, OnOSError(calls[c], e))
    /\ delivered' = [delivered EXCEPT
                       ![c] = Append(@, [kind |-> "oserror", status |-> 0,
                                         body |-> "", errno |-> e])]
    /\ UNCHANGED <<requestVars, routeVars, accVars, excVars>>

CallWake(c) ==
    /\ calls[c].pc = "sleep"
    /\ calls' = Store(calls, c, OnWake(calls[c]))
    /\ UNCHANGED <<delivered, requestVars, routeVars, accVars, excVars>>

ConcSpecInit == Init /\ route = CallRoute(1)

ConcNext ==
    \E c \in Calls :
        \/ CallRequest(c)
        \/ \E s \in ConcStatuses, b \in ConcBodies : CallRespond(c, s, b)
        \/ \E e \in ConcErrnos : CallFault(c, e)
        \/ CallWake(c)

ConcSpec == ConcSpecInit /\ [][ConcNext]_vars

---------------------------------------------------------------------------
(* Properties of one call to request                                       *)

\* The statuses the specification calls transient.
TransientSet == {429, 500, 502, 503, 504, 524}

\* The exception classes of bullhorn.exceptions that request raises.
TypedErrors == {"Forbidden", "NotFound", "BullhornServerError",
                "HTTPException"}

\* The latest dispatch of the current call ended in a response.
LastIsResponse == attempts # <<>> /\ Last(attempts).kind = "response"

\* The latest dispatch of the current call ended in an OSError.
LastIsOSError == attempts # <<>> /\ Last(attempts).kind = "oserror"

\* No sleep was started after the latest dispatch.
NoSleepAfterLast == Len(sleeps) = Len(attempts) - 1

\* C1: one call to request dispatches at most 5 times, whatever mix of
\* responses and OSErrors the transport produces.
C1_AtMostFiveDispatches == Len(attempts) <= 5

C1_Witness ==
    /\ Len(attempts) = 5
    /\ \E i \in 1..5 : attempts[i].kind = "response"
    /\ \E i \in 1..5 : attempts[i].kind = "oserror"

\* C2: a response with status in [200,300) and a JSON body ends the call
\* at once: request returns the parsed body, no sleep follows that attempt,
\* and on the first attempt that is one dispatch and zero sleeps.
C2_ReturnsOnSuccess ==
    (/\ LastIsResponse
     /\ Last(attempts).status >= 200
     /\ Last(attempts).status < 300
     /\ Last(attempts).json)
    => /\ pc = "done"
       /\ result.kind = "return"
       /\ result.value.type # "None"
       /\ result.value.text = response.body
       /\ NoSleepAfterLast
       /\ (Len(attempts) = 1 => sleeps = <<>>)

C2_Witness ==
    /\ Len(attempts) = 1
    /\ attempts[1].kind = "response"
    /\ attempts[1].status = 200
    /\ result.kind = "return"
    /\ sleeps = <<>>

\* Five attempts, each a response with a transient status and a JSON body.
FiveTransientResponses ==
    /\ Len(attempts) = 5
    /\ \A i \in 1..5 : /\ attempts[i].kind = "response"
                       /\ attempts[i].status \in TransientSet
                       /\ attempts[i].json

\* C3 (as claimed): after five transient responses the call has slept
\* exactly four times, for 1, 3, 5 and 7 seconds, and raises
\* BullhornServerError when the last status is >= 500.
C3_FourSleepsThenServerError ==
    (FiveTransientResponses /\ pc = "done")
    => /\ sleeps = <<1, 3, 5, 7>>
       /\ (Last(attempts).status >= 500 =>
               result.exc = "BullhornServerError")

\* C4 (as claimed): a 403 response raises Forbidden and a 404 response
\* raises NotFound on the attempt that received it, with no sleep after it.
C4_ForbiddenAndNotFound ==
    (LastIsResponse /\ Last(attempts).status \in {403, 404})
    => /\ pc = "done"
       /\ result.kind = "raise"
       /\ result.exc = (IF Last(attempts).status = 403
                        THEN "Forbidden" ELSE "NotFound")
       /\ NoSleepAfterLast

\* C5 (as claimed): a response with status >= 500 outside the transient
\* set raises BullhornServerError on that attempt, with no sleep after it.
C5_OtherServerError ==
    (/\ LastIsResponse
     /\ Last(attempts).status >= 500
     /\ Last(attempts).status \notin TransientSet)
    => /\ pc = "done"
       /\ result.kind = "raise"
       /\ result.exc = "BullhornServerError"
       /\ NoSleepAfterLast

\* C6 (as claimed): a response whose status is below 500, outside
\* [200,300), not 403, not 404 and not transient raises the generic
\* HTTPException on that attempt, with no sleep after it.
C6_GenericHTTPException ==
    (/\ LastIsResponse
     /\ Last(attempts).status < 500
     /\ ~(Last(attempts).status >= 200 /\ Last(attempts).status < 300)
     /\ Last(attempts).status \notin {403, 404}
     /\ Last(attempts).status \notin TransientSet)
    => /\ pc = "done"
       /\ result.kind = "raise"
       /\ result.exc = "HTTPException"
       /\ NoSleepAfterLast

\* The call is over and its fifth attempt was one the loop retries: a
\* response with a transient status and a JSON body.
Exhausted ==
    /\ pc = "done"
    /\ Len(attempts) = 5
    /\ Last(attempts).kind = "response"
    /\ Last(attempts).status \in TransientSet
    /\ Last(attempts).json

RetriedThenPropagated(E) ==
    (LastIsOSError /\ Last(attempts).errno \in E)
    => IF Len(attempts) < 5
       THEN /\ Len(sleeps) = Len(attempts)
            /\ Last(sleeps) = 1 + 2 * (Len(attempts) - 1)
            /\ \/ pc = "sleep"
               \/ pc = "dispatch" /\ tries = Len(attempts)
       ELSE /\ pc = "done"
            /\ result.kind = "raise"
            /\ result.exc = "OSError"
            /\ result.errno = Last(attempts).errno
            /\ Len(sleeps) = 4

\* C8 (as claimed): connection-reset and connection-refused OSErrors
\* (errno 54, 10054, 104, 61) are retried with backoff on attempts 0..3 and
\* propagated on attempt 4.
C8_ResetOrRefusedRetried == RetriedThenPropagated({54, 10054, 104, 61})

\* C8 (amended): an OSError with errno 54 or 10054 is retried with a sleep
\* of 1 + 2*i seconds on attempt index i < 4 and propagated unchanged on
\* attempt index 4.
C8_ResetRetried == RetriedThenPropagated({54, 10054})

C8_Witness ==
    /\ Len(attempts) = 3
    /\ LastIsOSError
    /\ Last(attempts).errno = 54
    /\ pc = "dispatch"
    /\ sleeps = <<1, 3, 5>>

\* Every attempt so far ended in an OSError of a retried errno.
OnlyRetriedFaults ==
    /\ attempts # <<>>
    /\ \A i \in 1..Len(attempts) : /\ attempts[i].kind = "oserror"
                                   /\ attempts[i].errno \in {54, 10054}

\* C9: when every attempt ends in a retried OSError, request never returns
\* a value and never raises a typed HTTP error; after the fifth dispatch it
\* propagates the OSError of that attempt, having slept 1, 3, 5, 7.
C9_OnlyFaultsPropagates ==
    OnlyRetriedFaults
    => /\ result.kind # "return"
       /\ result.exc \notin TypedErrors
       /\ (Len(attempts) = 5 =>
               /\ pc = "done"
               /\ result.kind = "raise"
               /\ result.exc = "OSError"
               /\ result.errno = Last(attempts).errno
               /\ sleeps = <<1, 3, 5, 7>>)

C9_Witness ==
    /\ OnlyRetriedFaults
    /\ Len(attempts) = 5
    /\ attempts[4].errno # attempts[5].errno
    /\ result.exc = "OSError"

\* The call returned the parsed body of the 2xx response of its latest
\* attempt.
EndsInValue ==
    /\ result.kind = "return"
    /\ LastIsResponse
    /\ Last(attempts).status >= 200
    /\ Last(attempts).status < 300
    /\ Last(attempts).json
    /\ result.value.text = response.body

\* The call raised one typed HTTP error.
EndsInTypedError == result.kind = "raise" /\ result.exc \in TypedErrors

\* The call let the OSError of its latest attempt through.
EndsInOSError ==
    /\ result.kind = "raise"
    /\ result.exc = "OSError"
    /\ LastIsOSError
    /\ result.errno = Last(attempts).errno

\* The call let the parse error of response.json() through.
EndsInParseError ==
    /\ result.kind = "raise"
    /\ result.exc = "JSONDecodeError"
    /\ LastIsResponse
    /\ ~Last(attempts).json

C11_Terminates == (pc \in {"dispatch", "sleep"}) ~> (pc = "done")

C11_Witness ==
    /\ pc = "done"
    /\ Len(attempts) = 5
    /\ \A i \in 1..5 : \/ attempts[i].kind = "oserror"
                       \/ attempts[i].status \in TransientSet
    /\ \E i \in 1..5 : attempts[i].kind = "oserror"
    /\ result.kind = "raise"

C13_ParseErrorOnSuccessStatus ==
    (/\ LastIsResponse
     /\ Last(attempts).status >= 200
     /\ Last(attempts).status < 300
     /\ response.body = "<html>")
    => /\ pc = "done"
       /\ result.kind = "raise"
       /\ result.exc = "JSONDecodeError"
       /\ NoSleepAfterLast

C13_Witness ==
    /\ Len(attempts) = 2
    /\ LastIsResponse
    /\ Last(attempts).status = 200
    /\ response.body = "<html>"
    /\ result.exc = "JSONDecodeError"
    /\ sleeps = <<1>>

\* The header names of a dispatch.
HeaderNames(h) == {p[1] : p \in h}

\* C14: every dispatch carries User-Agent with the client's user agent;
\* it carries BhRestToken (with the token) exactly when the client's token
\* is not None, and Content-Type: application/json exactly when a json
\* argument was passed.
C14_HeadersOfEveryDispatch ==
    \A i \in 1..Len(sent) :
        /\ <<"User-Agent", UserAgent>> \in sent[i].headers
        /\ ("BhRestToken" \in HeaderNames(sent[i].headers))
               <=> (token.type # "None")
        /\ token.type # "None" =>
               <<"BhRestToken", token.text>> \in sent[i].headers
        /\ (<<"Content-Type", "application/json">> \in sent[i].headers)
               <=> (json.type # "None")
        /\ ("Content-Type" \in HeaderNames(sent[i].headers))
               <=> (json.type # "None")
        /\ Cardinality(sent[i].headers)
               = Cardinality(HeaderNames(sent[i].headers))

C14_Witness ==
    /\ Len(sent) = 3
    /\ token.type = "None"
    /\ json.type # "None"
    /\ "BhRestToken" \notin HeaderNames(sent[3].headers)
    /\ "Content-Type" \in HeaderNames(sent[3].headers)

---------------------------------------------------------------------------
(* Properties of Route                                                     *)

\* The names of the {name} placeholders of a template.
Placeholders(path) ==
    {SubSeq(path, i + 1, j - 1) :
        <<i, j>> \in {<<i, j>> \in (1..Len(path)) \X (1..Len(path)) :
                        /\ i < j
                        /\ path[i] = "{"
                        /\ path[j] = "}"
                        /\ \A k \in (i + 1)..(j - 1) :
                               path[k] \notin {"{", "}"}}}

\* Some placeholder of the template has no entry in the path parameters.
Unsatisfied(r) ==
    \E name \in Placeholders(r.path) :
        \A i \in 1..Len(r.path_params) : r.path_params[i][1] # name

Constructed(r) == r.error # "unbuilt"

\* C15 (as claimed): constructing a Route whose template has a placeholder
\* without a path parameter fails, for every path-parameter map, the empty
\* one included; no Route keeps a placeholder in its url.
C15_MissingParameterFails ==
    /\ (Constructed(built) /\ Unsatisfied(built)) => built.error = "KeyError"
    /\ built.error = "" => \A i \in 1..Len(built.url) : built.url[i] # "{"

RECURSIVE Concat(_)
Concat(ss) == IF ss = <<>> THEN <<>> ELSE Head(ss) \o Concat(Tail(ss))

\* Percent-encoding of a path value: letters, digits, "_.-~" and "/" stay.
PathEncoded(s) ==
    Concat([i \in 1..Len(s) |->
               IF s[i] \in AlwaysSafe \cup {"/"} THEN <<s[i]>>
               ELSE PercentCode(s[i])])

\* Form encoding of a query key or value: a space becomes "+".
FormEncoded(s) ==
    Concat([i \in 1..Len(s) |->
               IF s[i] \in AlwaysSafe THEN <<s[i]>>
               ELSE IF s[i] = " " THEN <<"+">>
               ELSE PercentCode(s[i])])

\* The template with every placeholder replaced by its path parameter:
\* strings percent-encoded, other values as they print.
RECURSIVE Substituted(_, _)
Substituted(path, params) ==
    LET open == IndexOf(path, "{")
        close == IndexOf(path, "}")
        v == Lookup(params, SubSeq(path, open + 1, close - 1))
    IN  IF open = 0 THEN path
        ELSE SubSeq(path, 1, open - 1)
             \o (IF v.type = "str" THEN PathEncoded(v.s) ELSE Str(v))
             \o Substituted(SubSeq(path, close + 1, Len(path)), params)

\* "k=v" of every query pair in insertion order, joined by "&".
QueryString(query) ==
    Concat([i \in 1..Len(query) |->
               (IF i > 1 THEN <<"&">> ELSE <<>>)
               \o FormEncoded(query[i][1]) \o <<"=">>
               \o FormEncoded(Str(query[i][2]))])

\* C16: when every placeholder has a path parameter, construction succeeds
\* and url is the template with the placeholders replaced (strings
\* percent-encoded, numbers and booleans as they print), followed by "?"
\* and the encoded query pairs in insertion order exactly when the query
\* map is not empty; with both maps empty url is the template.
C16_UrlIsSubstitutedTemplate ==
    (Constructed(built) /\ ~Unsatisfied(built))
    => /\ built.error = ""
       /\ built.url =
              Substituted(built.path, built.path_params)
              \o (IF built.query_params # <<>>
                  THEN <<"?">> \o QueryString(built.query_params)
                  ELSE <<>>)
       /\ (built.path_params = <<>> /\ built.query_params = <<>>)
              => built.url = built.path

C16_Witness ==
    /\ built.error = ""
    /\ Cardinality(Placeholders(built.path)) = 2
    /\ \E i \in 1..Len(built.path_params) :
           built.path_params[i][2].type = "str"
    /\ \E i \in 1..Len(built.path_params) :
           built.path_params[i][2].type = "int"
    /\ Len(built.query_params) = 2
    /\ built.url = <<"e", "/", "1", "2", "/", "c", "%", "2", "0", "d", "?",
                     "f", "=", "x", "%", "2", "C", "y", "&", "c", "=", "5">>

\* C17: key is method, a space and the template as written; Routes with
\* the same method and template have the same key whatever their
\* parameters, so no substituted value shows in a key.
C17_KeyIsMethodAndTemplate ==
    /\ built.error = "" => built.key = built.method \o <<" ">> \o built.path
    /\ (/\ built.error = ""
        /\ builtBefore.error = ""
        /\ built.method = builtBefore.method
        /\ built.path = builtBefore.path)
       => built.key = builtBefore.key

C17_Witness ==
    /\ built.error = ""
    /\ builtBefore.error = ""
    /\ built.method = builtBefore.method
    /\ built.path = builtBefore.path
    /\ Placeholders(built.path) # {}
    /\ built.path_params # builtBefore.path_params
    /\ built.url # builtBefore.url
    /\ built.key = builtBefore.key

\* The keys of the query string of a url, in the order they appear.
RECURSIVE KeysOf(_)
KeysOf(q) ==
    IF q = <<>> THEN <<>>
    ELSE <<SubSeq(q, 1, IndexOf(q, "=") - 1)>>
         \o (IF IndexOf(q, "&") = 0 THEN <<>>
             ELSE KeysOf(SubSeq(q, IndexOf(q, "&") + 1, Len(q))))

QueryPart(url) ==
    IF IndexOf(url, "?") = 0 THEN <<>>
    ELSE SubSeq(url, IndexOf(url, "?") + 1, Len(url))

\* C18: two Routes built from the same arguments have the same url, and
\* the query keys appear in the url in the insertion order of the query
\* map.
C18_SameUrlInInsertionOrder ==
    /\ (/\ built.error = ""
        /\ builtBefore.error = ""
        /\ built.method = builtBefore.method
        /\ built.path = builtBefore.path
        /\ built.path_params = builtBefore.path_params
        /\ built.query_params = builtBefore.query_params)
       => built.url = builtBefore.url
    /\ built.error = ""
       => KeysOf(QueryPart(built.url))
              = [i \in 1..Len(built.query_params) |->
                    built.query_params[i][1]]

C18_Witness ==
    /\ built.error = ""
    /\ builtBefore.error = ""
    /\ built.path = builtBefore.path
    /\ built.path_params = builtBefore.path_params
    /\ Len(built.query_params) = 2
    /\ Len(builtBefore.query_params) = 2
    /\ built.query_params[1] = builtBefore.query_params[2]
    /\ built.query_params[2] = builtBefore.query_params[1]
    /\ built.url # builtBefore.url
    /\ KeysOf(QueryPart(built.url)) = << <<"c">>, <<"f">> >>

---------------------------------------------------------------------------
(* Properties of the query accessors                                       *)

\* Number of pages of count records from start up to total (at least one
\* fetch is made).
PagesNeeded(total, count, start) ==
    IF total <= start + count THEN 1
    ELSE 1 + ((total - start - count) + count - 1) \div count

C20_ReturnsEnvelopeData ==
    (accPc = "done" /\ accResult.kind = "return")
    => /\ Len(accResult.value) = Len(accEnvelope.data)
       /\ \A i \in 1..Len(accEnvelope.data) :
              accResult.value[i] = accEnvelope.data[i]

C20_Witness ==
    /\ accPc = "done"
    /\ accResult.kind = "return"
    /\ accEnvelope.start = 10
    /\ accEnvelope.total = 25
    /\ accEnvelope.count = 10
    /\ accResult.value = <<11, 12, 13, 14, 15, 16, 17, 18, 19, 20>>

---------------------------------------------------------------------------
(* Further properties of one call to request                               *)

\* C22 (as claimed): a sleep is always followed by another dispatch: the
\* final attempt starts no sleep, so a call sleeps at most 4 times and a
\* finished call has slept fewer times than it has dispatched.
C22_NoSleepAfterFinalAttempt ==
    /\ Len(sleeps) <= 4
    /\ pc = "done" => Len(sleeps) < Len(attempts)

\* C23 (as claimed): what request does with a response outside [200,300)
\* depends on its status alone: a transient status is retried and any other
\* status raises its typed error, also when the body is not JSON; the parse
\* error never takes their place.
C23_StatusAloneDecides ==
    (/\ LastIsResponse
     /\ ~(Last(attempts).status >= 200 /\ Last(attempts).status < 300))
    => /\ result.exc # "JSONDecodeError"
       /\ Last(attempts).status \in TransientSet
              => (pc \in {"sleep", "dispatch"} \/ Len(attempts) = 5)
       /\ Last(attempts).status \notin TransientSet
              => (pc = "done" /\ result.exc \in TypedErrors)

\* C24: an OSError whose errno is neither 54 nor 10054 (errno None
\* included) leaves request unchanged from whatever attempt it occurs on:
\* no sleep follows it and no further dispatch.
C24_OtherOSErrorPropagates ==
    (LastIsOSError /\ Last(attempts).errno \notin {54, 10054})
    => /\ pc = "done"
       /\ result.kind = "raise"
       /\ result.exc = "OSError"
       /\ result.errno = Last(attempts).errno
       /\ NoSleepAfterLast

C24_Witness ==
    /\ Len(attempts) = 3
    /\ LastIsOSError
    /\ Last(attempts).errno = 0
    /\ attempts[1].kind = "response"
    /\ result.exc = "OSError"
    /\ sleeps = <<1, 3>>

\* The loop ran out: the fifth attempt ended in a sleep and continue.
LoopLeft == Len(sleeps) = 5 /\ pc = "done"

\* C28: the RuntimeError after the loop is never raised: whenever the loop
\* runs out, response is bound to a response object, so no call ends in
\* RuntimeError or in an unbound local variable.
C28_RuntimeErrorUnreachable ==
    /\ result.exc \notin {"RuntimeError", "UnboundLocalError"}
    /\ Len(sleeps) = 5 => (response.bound /\ ~response.none)

C28_Witness ==
    /\ LoopLeft
    /\ \A i \in 1..4 : attempts[i].kind = "oserror"
    /\ result.exc \in TypedErrors

\* C29: the typed error raised when the loop runs out is built from the
\* response and parsed body of the fifth attempt; when the fifth attempt
\* ends in an OSError after earlier transient responses, that OSError is
\* propagated and no typed error is raised.
C29_ExhaustionUsesFifthAttempt ==
    /\ LoopLeft
       => /\ Len(attempts) = 5
          /\ attempts[5].kind = "response"
          /\ result.exc \in TypedErrors
          /\ result.response = response
          /\ result.response.status_code = attempts[5].status
          /\ result.value = data
          /\ result.value.text = response.body
    /\ (/\ Len(attempts) = 5
        /\ attempts[5].kind = "oserror"
        /\ \E i \in 1..4 : attempts[i].kind = "response")
       => /\ pc = "done"
          /\ result.exc = "OSError"
          /\ result.errno = attempts[5].errno

C29_Witness ==
    /\ Len(attempts) = 5
    /\ attempts[5].kind = "oserror"
    /\ attempts[5].errno = 54
    /\ attempts[4].kind = "response"
    /\ attempts[4].status = 500
    /\ response.bound
    /\ result.exc = "OSError"

\* C27: request writes no field of the client and none of the Route it was
\* given: token, rest_url and user_agent keep their values over every step,
\* and from the start of a call to its end, successful or failing, the
\* Route keeps its method, path and url.
C27_RequestWritesNoField ==
    [][/\ token' = token
       /\ rest_url' = rest_url
       /\ user_agent' = user_agent
       /\ pc \in {"dispatch", "sleep"} => route' = route]_vars

C27_Witness ==
    /\ pc = "done"
    /\ result.exc = "OSError"
    /\ Len(attempts) = 3
    /\ attempts[1].kind = "oserror"
    /\ attempts[2].kind = "response"
    /\ token # NoneVal
    /\ rest_url = RestUrl
    /\ user_agent = UserAgent
    /\ route.path = "entity/{entity}"

\* C30: every dispatch of one call sends the same method, url, headers and
\* json: the headers are those built before the first attempt, so a token
\* assigned to the client while the call sleeps does not show in the later
\* attempts of that call.
C30_SameRequestEveryAttempt ==
    \A i \in 1..Len(sent) :
        /\ sent[i] = sent[1]
        /\ sent[i].headers = headers
        /\ sent[i].method = route.method
        /\ sent[i].url = route.url
        /\ sent[i].json = json

C30_Witness ==
    /\ Len(sent) = 3
    /\ token = NoneVal
    /\ \E h \in sent[3].headers : h[1] = "BhRestToken"
    /\ attempts[1].kind = "response"
    /\ attempts[2].kind = "oserror"

---------------------------------------------------------------------------
(* Properties of the typed errors                                          *)

\* The body whose text the response of the exception carries.
BodyOfRaised ==
    ErrorBodies[CHOOSE i \in 1..Len(ErrorBodies) :
                    ErrorBodies[i].raw = raised.response.body]

IsMapping(j) == j.t = "dict"

HasErrors(j) ==
    IsMapping(j) /\ HasKey(j.items, "errors") /\ Truthy(Lookup(j.items, "errors"))

\* The top-level message field of a mapping, empty when it has none.
BaseMessage(j) ==
    IF HasKey(j.items, "message") THEN Lookup(j.items, "message").s ELSE ""

\* status, response and code as claimed by C25
CarriesStatusResponseCode ==
    /\ raised.name \in TypedErrors
    /\ raised.response.bound
    /\ raised.status = raised.response.status_code
    /\ raised.message = BodyOfRaised.parsed
    /\ raised.code = IF IsMapping(raised.message)
                        /\ HasKey(raised.message.items, "code")
                     THEN Lookup(raised.message.items, "code")
                     ELSE JInt(0)

IsLeaf(j) ==
    IsMapping(j) /\ HasKey(j.items, "_errors")
    /\ Lookup(j.items, "_errors").t = "list"

\* The messages of a leaf, joined by single spaces.
MessagesOf(leaf) ==
    LET entries == Lookup(leaf.items, "_errors").items
    IN  JoinWith([i \in 1..Len(entries) |->
                     Lookup(entries[i][2].items, "message").s], " ")

\* The leaves below d in order, each with the dot-joined path of keys that
\* leads to it from the root.
RECURSIVE Leaves(_, _)
Leaves(d, prefix) ==
    Concat([i \in 1..Len(d.items) |->
        LET k == d.items[i][1]
            v == d.items[i][2]
            path == IF prefix = "" THEN k ELSE prefix \o "." \o k
        IN  IF IsLeaf(v) THEN <<[path |-> path, message |-> MessagesOf(v)]>>
            ELSE IF IsMapping(v) THEN Leaves(v, path)
            ELSE <<>>])

LeavesOfRaised == Leaves(Lookup(raised.message.items, "errors"), "")

DistinctPaths(leaves) ==
    \A i, j \in 1..Len(leaves) : leaves[i].path = leaves[j].path => i = j

---------------------------------------------------------------------------
(* Properties of interleaved calls                                         *)

\* The locals of a call that runs alone from locals l and is given the
\* transport outcomes outs, up to the last of them.
RECURSIVE RunAlone(_, _)
RunAlone(l, outs) ==
    IF outs = <<>> THEN l
    ELSE LET ready == IF l.pc = "sleep" THEN OnWake(l) ELSE l
             o == Head(outs)
         IN  RunAlone(IF o.kind = "response"
                      THEN OnResponse(ready, o.status, o.body)
                      ELSE OnOSError(ready, o.errno),
                      Tail(outs))

AloneOf(c) ==
    RunAlone(StartCall(token, CallRoute(c), CallJson(c)), delivered[c])

\* C21: each of the interleaved calls has dispatched, slept and ended as it
\* would running alone against the transport outcomes it was given: its
\* attempt counter, response and data are those of the call alone.
C21_InterleavedCallsIndependent ==
    \A c \in Calls :
        calls[c].pc # "idle"
        => \/ calls[c] = AloneOf(c)
           \/ AloneOf(c).pc = "sleep" /\ calls[c] = OnWake(AloneOf(c))

C21_Witness ==
    /\ calls[1].pc = "done"
    /\ calls[1].result.exc = "BullhornServerError"
    /\ Len(calls[1].sleeps) = 5
    /\ calls[2].pc = "sleep"
    /\ calls[2].tries = 1
    /\ calls[2].response.bound
    /\ delivered[2][1].kind = "oserror"

=============================================================================
